---- MODULE Spec2Model ----
(***************************************************************************)
(* Model of rpc/tpu/tpu_client.go: the slot estimator (RecentLeaderSlots), *)
(* the leader schedule cache (LeaderTPUCache), the refresh loop and the    *)
(* progress listener (LeaderTPUService) and the fan-out sender             *)
(* (TPUClient.SendRawTransaction).                                         *)
(*                                                                         *)
(* Slots are Go uint64 values.  TLC's integers are 32 bits wide, so a      *)
(* number is kept as five 16-bit limbs, most significant first: limbs 2..5 *)
(* are the 64 bits of a uint64 and limb 1 holds what does not fit in 64    *)
(* bits (the carry of an addition, or the float64 value 2^64).             *)
(***************************************************************************)
EXTENDS Integers, Sequences, FiniteSets, TLC

VARIABLES
    RecentSlots,      \* RecentLeaderSlots.RecentSlots: the float64 samples
    recorded,         \* history: every slot handed to Load/RecordSlot, in order
    estimate,         \* what the EstimatedCurrentSlot call just made returned, or None
    convOverflow,     \* what uint64(float64 2^64) yields on this build
    Leaders,          \* LeaderTPUCache.Leaders: leader identities, one per slot
    LeaderTPUMap,     \* LeaderTPUCache.LeaderTPUMap: identity -> TPU address
    sockCall,         \* the GetLeaderSockets[Converted] call just made, or None
    sockets,          \* what that call returned
    FanoutSlots,      \* TPUClient.FanoutSlots
    sendPc,           \* where SendRawTransaction stands
    amount,           \* its argument: writes per destination
    leaderTPUSockets, \* its local: the resolved address list
    leaderIdx,        \* the position of its range loop in that list
    connectionTries,  \* its local connectionTries
    writeIdx,         \* its local i, the write loop's counter
    successes,        \* its local successes
    lastError,        \* its local lastError
    sendResult,       \* what it returned
    wroteOk,          \* history: some write of this call succeeded
    lastFailure,      \* history: the text of the latest dial or write failure
    sawOther,         \* history: an earlier failure had another text
    skipped,          \* history: destinations given up after the dial retries
    dials,            \* history: net.Dial calls made for the current destination
    writes,           \* history: Write calls made on the current destination
    lastAddr,         \* history: the dials and writes of the destination just left
    clusterSlot,      \* the cluster: the slot getSlot would report now
    advances,         \* the cluster: how many slots it has advanced
    epochSlots,       \* the cluster: slotsInEpoch as getEpochInfo reports it
    clientState,      \* "new", or how New ended: "ready" or "failed"
    config,           \* history: the config.FanoutSlots New was called with, or -1
    runLog,           \* history: the last two of Run's queries and sleeps
    loadError,        \* the error New returned, or None
    Connection,       \* LeaderTPUService.Connection
    FirstSlot,        \* LeaderTPUCache.FirstSlot
    SlotsInEpoch,     \* LeaderTPUCache.SlotsInEpoch
    listener,         \* the listener goroutine: "none" or "running"
    events,           \* how many messages the listener has received
    runPc,            \* where the Run goroutine stands ("off": not started)
    sleepMs,          \* Run's local sleepMs
    refreshDue,       \* Run: more than 5 minutes since lastClusterRefreshTime
    currentSlot,      \* Run's local currentSlot
    slotLeaders,      \* Run's local slotLeaders
    oldFirstSlot,     \* history: FirstSlot before Run's latest write to it
    leadersStart,     \* history: the startSlot of the request Leaders came from
    readerSaw         \* what the latest reader of the cache saw, or None

estVars == <<RecentSlots, recorded, estimate, convOverflow>>
sockVars == <<Leaders, LeaderTPUMap, sockCall, sockets>>
sendVars == <<FanoutSlots, sendPc, amount, leaderTPUSockets, leaderIdx,
              connectionTries, writeIdx, successes, lastError, sendResult,
              wroteOk, lastFailure, sawOther, skipped, dials, writes, lastAddr>>

svcVars == <<clusterSlot, advances, epochSlots, clientState, config, runLog, loadError,
             Connection, FirstSlot, SlotsInEpoch, listener, events, runPc,
             sleepMs, refreshDue, currentSlot, slotLeaders, oldFirstSlot,
             leadersStart, readerSaw>>

vars == <<estVars, sockVars, sendVars, svcVars>>

None == <<>>

Nil == "nil"

\* No client has been constructed: every field holds its zero value.
NoService ==
    /\ clusterSlot = 0
    /\ advances = 0
    /\ epochSlots = 0
    /\ clientState = "new"
    /\ config = -1
    /\ runLog = <<>>
    /\ loadError = None
    /\ Connection = Nil
    /\ FirstSlot = <<0, 0, 0, 0, 0>>
    /\ SlotsInEpoch = 0
    /\ listener = "none"
    /\ events = 0
    /\ runPc = "off"
    /\ sleepMs = 0
    /\ refreshDue = FALSE
    /\ currentSlot = <<0, 0, 0, 0, 0>>
    /\ slotLeaders = <<>>
    /\ oldFirstSlot = <<0, 0, 0, 0, 0>>
    /\ leadersStart = None
    /\ readerSaw = None

\* No SendRawTransaction call has been made.
SendIdle ==
    /\ sendPc = "idle"
    /\ amount = 0
    /\ leaderTPUSockets = <<>>
    /\ leaderIdx = 0
    /\ connectionTries = 0
    /\ writeIdx = 0
    /\ successes = 0
    /\ lastError = ""
    /\ sendResult = None
    /\ wroteOk = FALSE
    /\ lastFailure = ""
    /\ sawOther = FALSE
    /\ skipped = 0
    /\ dials = 0
    /\ writes = 0
    /\ lastAddr = None

(***************************************************************************)
(* uint64 and float64 arithmetic.                                          *)
(***************************************************************************)
Base == 2^16

Big(n) == <<0, 0, 0, n \div Base, n % Base>>

\* Limb-wise addition with carry.
AddLimbs(x, y) ==
    LET s5 == x[5] + y[5]
        s4 == x[4] + y[4] + (s5 \div Base)
        s3 == x[3] + y[3] + (s4 \div Base)
        s2 == x[2] + y[2] + (s3 \div Base)
        s1 == x[1] + y[1] + (s2 \div Base)
    IN  <<s1 % Base, s2 % Base, s3 % Base, s4 % Base, s5 % Base>>

\* The operands are evaluated once, then added.
BigAdd(x, y) == CHOOSE r \in {AddLimbs(p[1], p[2]) : p \in {<<x, y>>}} : TRUE

BigLt(x, y) ==
    \E p \in {<<x, y>>} :
        \E i \in 1..5 : p[1][i] < p[2][i] /\ \A j \in 1..(i - 1) : p[1][j] = p[2][j]

BigLe(x, y) == \E p \in {<<x, y>>} : p[1] = p[2] \/ BigLt(p[1], p[2])

\* The value modulo 2^64: what a uint64 keeps of a result.
Wrap64(x) == [x EXCEPT ![1] = 0]

U64Add(x, y) == Wrap64(BigAdd(x, y))

U64Neg(y) ==
    Wrap64(BigAdd(<<0, Base - 1 - y[2], Base - 1 - y[3], Base - 1 - y[4],
                    Base - 1 - y[5]>>, Big(1)))

U64Sub(x, y) == U64Add(x, U64Neg(y))

MaxUint64 == <<0, Base - 1, Base - 1, Base - 1, Base - 1>>
Two63 == <<0, Base \div 2, 0, 0, 0>>
Two64 == <<1, 0, 0, 0, 0>>
Two53 == <<0, 32, 0, 0, 0>>

\* The number of bits of a limb: the least n with t < 2^n.
BitLen(t) == CHOOSE n \in 0..16 : t < 2^n /\ (n = 0 \/ t >= 2^(n - 1))

\* float64(x) for a uint64 x: exact below 2^53, else rounded to 53
\* significant bits, to nearest, ties to even.  The result may be 2^64.
ToFloat64(x) ==
    IF x[2] < 32 THEN x
    ELSE LET q == 2^(BitLen(x[2]) - 5)
             r == x[5] % q
             down == <<0, x[2], x[3], x[4], x[5] - r>>
             up == BigAdd(down, Big(q))
             odd == (x[5] \div q) % 2 = 1
         IN  IF 2 * r > q \/ (2 * r = q /\ odd) THEN up ELSE down

\* The results a Go build gives for uint64(f) when f = 2^64 is out of range
\* (implementation-dependent: amd64 yields 2^63, arm64 saturates).
OutOfRangeUint64 == {Two63, MaxUint64}

\* uint64(f) for a float64 f holding an integer in 0..2^64.
ToUint64(f, ovf) == IF f[1] = 0 THEN f ELSE ovf

(***************************************************************************)
(* RecentLeaderSlots.                                                      *)
(***************************************************************************)
WindowCap == 12
MAX_SLOT_SKIP_DISTANCE == 48

RECURSIVE InsertAsc(_, _)
InsertAsc(s, x) ==
    IF s = <<>> THEN <<x>>
    ELSE IF BigLe(x, Head(s)) THEN <<x>> \o s
    ELSE <<Head(s)>> \o InsertAsc(Tail(s), x)

\* sort.Float64s: ascending.
RECURSIVE SortFloat64s(_)
SortFloat64s(s) ==
    IF s = <<>> THEN <<>> ELSE InsertAsc(SortFloat64s(Tail(s)), Head(s))

\* sort.Sort(sort.Reverse(sort.Float64Slice(s))): descending.
SortReverse(s) ==
    LET a == SortFloat64s(s) IN [i \in 1..Len(a) |-> a[Len(a) + 1 - i]]

\* The for loop of RecordSlot: drop the front while more than 12 remain.
RECURSIVE TrimFront(_)
TrimFront(s) == IF Len(s) > WindowCap THEN TrimFront(Tail(s)) ELSE s

\* The scan of EstimatedCurrentSlot over the (descending) samples.
RECURSIVE ScanSlots(_, _, _, _)
ScanSlots(s, maxReasonable, slotToReturn, ovf) ==
    IF s = <<>> THEN slotToReturn
    ELSE LET u == ToUint64(Head(s), ovf)
         IN  ScanSlots(Tail(s), maxReasonable,
                       IF BigLe(u, maxReasonable) /\ BigLt(slotToReturn, u)
                       THEN u ELSE slotToReturn,
                       ovf)

\* The value EstimatedCurrentSlot returns for a window.
EstimateOf(w, ovf) ==
    IF Len(w) = 0 THEN Big(0)
    ELSE LET asc == SortFloat64s(w)
             maxIndex == Len(w) - 1
             medianIndex == maxIndex \div 2
             medianRecentSlot == asc[medianIndex + 1]
             expectedCurrentSlot ==
                 U64Add(ToUint64(medianRecentSlot, ovf), Big(maxIndex - medianIndex))
             maxReasonableCurrentSlot ==
                 U64Add(expectedCurrentSlot, Big(MAX_SLOT_SKIP_DISTANCE))
         IN  ScanSlots(SortReverse(w), maxReasonableCurrentSlot, Big(0), ovf)

\* The window EstimatedCurrentSlot leaves: recentSlots shares the backing
\* array of RecentSlots, so both in-place sorts reorder the window itself.
WindowAfterEstimate(w) == IF Len(w) = 0 THEN w ELSE SortReverse(w)

WindowAfterRecord(w, slot) == TrimFront(Append(w, ToFloat64(slot)))

RecentLeaderSlots_Load(slot) ==
    /\ RecentSlots' = Append(RecentSlots, ToFloat64(slot))
    /\ recorded' = Append(recorded, slot)
    /\ estimate' = None
    /\ UNCHANGED convOverflow

RecordSlot(slot) ==
    /\ RecentSlots' = WindowAfterRecord(RecentSlots, slot)
    /\ recorded' = Append(recorded, slot)
    /\ estimate' = None
    /\ UNCHANGED convOverflow

EstimatedCurrentSlot ==
    /\ estimate' = EstimateOf(RecentSlots, convOverflow)
    /\ RecentSlots' = WindowAfterEstimate(RecentSlots)
    /\ UNCHANGED <<recorded, convOverflow>>

(***************************************************************************)
(* The estimator on its own: a RecentLeaderSlots value, first empty, that  *)
(* is loaded once, then fed slots and asked for estimates in any order.    *)
(***************************************************************************)
MaxRecords == 4

SlotValues ==
    {Big(100), Big(101), Big(102), Big(1000), BigAdd(Two53, Big(1)), MaxUint64}

InitEst ==
    /\ RecentSlots = <<>>
    /\ recorded = <<>>
    /\ estimate = None
    /\ convOverflow \in OutOfRangeUint64
    /\ Leaders = <<>>
    /\ LeaderTPUMap = <<>>
    /\ sockCall = None
    /\ sockets = <<>>
    /\ FanoutSlots = 0
    /\ SendIdle
    /\ NoService

NextEst ==
    \/ \E s \in SlotValues :
           recorded = <<>> /\ RecentLeaderSlots_Load(s) /\ UNCHANGED <<sockVars, sendVars, svcVars>>
    \/ \E s \in SlotValues :
           recorded # <<>> /\ Len(recorded) < MaxRecords /\ RecordSlot(s)
              /\ UNCHANGED <<sockVars, sendVars, svcVars>>
    \/ estimate = None /\ EstimatedCurrentSlot /\ UNCHANGED <<sockVars, sendVars, svcVars>>

SpecEst == InitEst /\ [][NextEst]_vars

(***************************************************************************)
(* The same estimator fed a long stream of slots, so that the window fills *)
(* and RecordSlot has to evict.                                            *)
(***************************************************************************)
MaxStream == 13

StreamValues == {Big(100), Big(101)}

NextWindow ==
    \/ \E s \in StreamValues :
           recorded = <<>> /\ RecentLeaderSlots_Load(s) /\ UNCHANGED <<sockVars, sendVars, svcVars>>
    \/ \E s \in StreamValues :
           recorded # <<>> /\ Len(recorded) < MaxStream /\ RecordSlot(s)
              /\ UNCHANGED <<sockVars, sendVars, svcVars>>
    \/ estimate = None /\ EstimatedCurrentSlot /\ UNCHANGED <<sockVars, sendVars, svcVars>>

SpecWindow == InitEst /\ [][NextWindow]_vars

(***************************************************************************)
(* Claims about the estimator.                                             *)
(***************************************************************************)
Samples(w) == {w[i] : i \in 1..Len(w)}

\* The sample at 0-based position k of the samples sorted ascending.
SampleOfRank(w, k) ==
    CHOOSE x \in Samples(w) :
        /\ Cardinality({i \in 1..Len(w) : BigLt(w[i], x)}) <= k
        /\ k < Cardinality({i \in 1..Len(w) : BigLe(w[i], x)})

\* median + (n-1-medianIndex) + 48, as a number (no wraparound).
ClaimedCap(w) ==
    LET n == Len(w)
        medianIndex == (n - 1) \div 2
    IN  BigAdd(BigAdd(SampleOfRank(w, medianIndex), Big(n - 1 - medianIndex)),
               Big(48))

ClaimedEstimate(w) ==
    IF w = <<>> THEN Big(0)
    ELSE CHOOSE x \in Samples(w) :
             /\ BigLe(x, ClaimedCap(w))
             /\ \A y \in Samples(w) : BigLe(y, ClaimedCap(w)) => BigLe(y, x)

\* C5: EstimatedCurrentSlot returns 0 on an empty window and otherwise the
\* largest sample that is <= median + (n-1-medianIndex) + 48.
C5_EstimateIsLargestSampleWithinCap ==
    estimate # None => estimate = ClaimedEstimate(RecentSlots)

\* The same statement for windows whose samples are all below 2^64.
EstimateIsLargestSampleWithinCapBelowTwo64 ==
    (estimate # None /\ \A i \in 1..Len(RecentSlots) : RecentSlots[i][1] = 0)
        => estimate = ClaimedEstimate(RecentSlots)

\* The example of C5: samples [100, 102, 101, 1000] give 102.
EstimateExampleReached ==
    /\ recorded = <<Big(100), Big(102), Big(101), Big(1000)>>
    /\ estimate = Big(102)

\* C6: for a non-empty window, EstimatedCurrentSlot returns one of the
\* samples in the window.
C6_EstimateIsASample ==
    (estimate # None /\ RecentSlots # <<>>) => estimate \in Samples(RecentSlots)

\* The last n elements of a sequence (all of it when it is shorter).
LastN(s, n) ==
    IF Len(s) <= n THEN s ELSE SubSeq(s, Len(s) - n + 1, Len(s))

\* C7: the window holds at most 12 samples, and they are the most recently
\* recorded ones in arrival order.
C7_WindowIsMostRecentInArrivalOrder ==
    /\ Len(RecentSlots) <= 12
    /\ RecentSlots = [i \in 1..Len(LastN(recorded, 12)) |->
                         ToFloat64(LastN(recorded, 12)[i])]

\* The part of C7 that ignores order: each sample value occurs in the
\* window as often as among the 12 most recently recorded slots.
WindowHoldsMostRecentSamples ==
    LET want == [i \in 1..Len(LastN(recorded, 12)) |->
                    ToFloat64(LastN(recorded, 12)[i])]
    IN  \A x \in Samples(want) \cup Samples(RecentSlots) :
            Cardinality({i \in 1..Len(want) : want[i] = x})
                = Cardinality({i \in 1..Len(RecentSlots) : RecentSlots[i] = x})

\* The part of C7 that bounds the window.
WindowAtMostTwelve == Len(RecentSlots) <= 12

(***************************************************************************)
(* LeaderTPUCache: resolving the leaders' TPU addresses.                   *)
(***************************************************************************)
\* A Go map lookup: the zero value "" for a missing key.
MapGet(m, k) == IF k \in DOMAIN m THEN m[k] ELSE ""

\* CheckIfDuplicate(list, s): whether s is already in list.
CheckIfDuplicate(list, x) == \E i \in 1..Len(list) : list[i] = x

\* Addresses net.ResolveUDPAddr cannot resolve (no port, unknown host).
Unresolvable == {"nohost"}

\* net.ResolveUDPAddr("udp", a) with its error dropped: nil on failure.
ResolveUDPAddr(a) == IF a \in Unresolvable THEN Nil ELSE <<"udp", a>>

\* The loop of GetLeaderSockets and of GetLeaderSocketsConverted, which
\* differ only in appending the address or its resolved form.  checkedSlots
\* and fanoutSlots are uint64 values far below 2^31 here, kept as plain
\* numbers.
RECURSIVE LeaderSocketsLoop(_, _, _, _, _, _, _)
LeaderSocketsLoop(leaders, tpuMap, fanoutSlots, already, out, checkedSlots, converted) ==
    IF leaders = <<>> THEN out
    ELSE LET leader == Head(leaders)
             tpuSocket == MapGet(tpuMap, leader)
             add == tpuSocket # "" /\ ~CheckIfDuplicate(already, leader)
             already2 == IF add THEN Append(already, leader) ELSE already
             out2 == IF ~add THEN out
                     ELSE IF converted THEN Append(out, ResolveUDPAddr(tpuSocket))
                     ELSE Append(out, tpuSocket)
             checked2 == checkedSlots + 1
         IN  IF checked2 = fanoutSlots THEN out2
             ELSE LeaderSocketsLoop(Tail(leaders), tpuMap, fanoutSlots,
                                    already2, out2, checked2, converted)

\* GetLeaderSockets with checkedSlots starting at 1 instead of 0.
LeaderSocketsCountingFromOne(leaders, tpuMap, fanoutSlots) ==
    LeaderSocketsLoop(leaders, tpuMap, fanoutSlots, <<>>, <<>>, 1, FALSE)

LeaderSocketsOf(leaders, tpuMap, fanoutSlots) ==
    LeaderSocketsLoop(leaders, tpuMap, fanoutSlots, <<>>, <<>>, 0, FALSE)

LeaderSocketsConvertedOf(leaders, tpuMap, fanoutSlots) ==
    LeaderSocketsLoop(leaders, tpuMap, fanoutSlots, <<>>, <<>>, 0, TRUE)

GetLeaderSockets(fanoutSlots) ==
    /\ sockCall' = [op |-> "GetLeaderSockets", fanoutSlots |-> fanoutSlots]
    /\ sockets' = LeaderSocketsOf(Leaders, LeaderTPUMap, fanoutSlots)
    /\ UNCHANGED <<Leaders, LeaderTPUMap>>

GetLeaderSocketsConverted(fanoutSlots) ==
    /\ sockCall' = [op |-> "GetLeaderSocketsConverted", fanoutSlots |-> fanoutSlots]
    /\ sockets' = LeaderSocketsConvertedOf(Leaders, LeaderTPUMap, fanoutSlots)
    /\ UNCHANGED <<Leaders, LeaderTPUMap>>

(***************************************************************************)
(* The cache on its own: any leader sequence and topology table, asked for *)
(* the sockets of any fan-out.                                             *)
(***************************************************************************)
MaxLeaders == 3
MaxFanoutArg == 4

LeaderIds == {"A", "B", "C"}
TpuValues == {"addr1", "addr2", "nohost", ""}

SeqsUpTo(S, n) == UNION {[1..m -> S] : m \in 0..n}
TopologyTables == UNION {[D -> TpuValues] : D \in SUBSET LeaderIds}

InitSockets ==
    /\ Leaders \in SeqsUpTo(LeaderIds, MaxLeaders)
    /\ LeaderTPUMap \in TopologyTables
    /\ sockCall = None
    /\ sockets = <<>>
    /\ RecentSlots = <<>>
    /\ recorded = <<>>
    /\ estimate = None
    /\ convOverflow = Two63
    /\ FanoutSlots = 0
    /\ SendIdle
    /\ NoService

NextSockets ==
    \/ \E k \in 0..MaxFanoutArg :
           sockCall = None /\ GetLeaderSockets(k) /\ UNCHANGED <<estVars, sendVars, svcVars>>
    \/ \E k \in 0..MaxFanoutArg :
           sockCall = None /\ GetLeaderSocketsConverted(k) /\ UNCHANGED <<estVars, sendVars, svcVars>>

SpecSockets == InitSockets /\ [][NextSockets]_vars

Min(a, b) == IF a <= b THEN a ELSE b

\* The positions among the first min(k, length) whose leader has a known
\* address and does not occur at an earlier position.
FirstKnownPositions(leaders, tpuMap, k) ==
    {i \in 1..Min(k, Len(leaders)) :
        /\ MapGet(tpuMap, leaders[i]) # ""
        /\ \A j \in 1..(i - 1) : leaders[j] # leaders[i]}

\* The addresses of those leaders, in order of first appearance.
ClaimedSockets(leaders, tpuMap, k) ==
    LET P == FirstKnownPositions(leaders, tpuMap, k)
        nth(r) == CHOOSE i \in P : Cardinality({j \in P : j < i}) = r - 1
    IN  [r \in 1..Cardinality(P) |-> MapGet(tpuMap, leaders[nth(r)])]

\* C3: for k >= 1, GetLeaderSockets(k) returns exactly the addresses of the
\* distinct leaders with a known address among the first min(k, length)
\* positions, each leader once, in order of first appearance.
C3_SocketsAreFirstKnownLeaders ==
    (sockCall # None /\ sockCall.op = "GetLeaderSockets" /\ sockCall.fanoutSlots >= 1)
        => sockets = ClaimedSockets(Leaders, LeaderTPUMap, sockCall.fanoutSlots)

\* The example of C3: leaders [A, A, B], k = 3, {A: addr1, B: addr2}.
C3_Witness ==
    /\ sockCall # None
    /\ sockCall.op = "GetLeaderSockets"
    /\ sockCall.fanoutSlots = 3
    /\ Leaders = <<"A", "A", "B">>
    /\ LeaderTPUMap = [l \in {"A", "B"} |-> IF l = "A" THEN "addr1" ELSE "addr2"]
    /\ sockets = <<"addr1", "addr2">>

\* GetLeaderSocketsConverted returns the same list, each address resolved.
ConvertedIsResolvedSockets ==
    (sockCall # None /\ sockCall.op = "GetLeaderSocketsConverted")
        => sockets =
             [r \in 1..Len(LeaderSocketsOf(Leaders, LeaderTPUMap, sockCall.fanoutSlots)) |->
                 ResolveUDPAddr(LeaderSocketsOf(Leaders, LeaderTPUMap,
                                                sockCall.fanoutSlots)[r])]

\* C4: for every k, 0 included, GetLeaderSockets(k) returns at most k
\* addresses, each of a leader at one of the first k positions.
C4_AtMostKPositionsScanned ==
    (sockCall # None /\ sockCall.op = "GetLeaderSockets")
        => /\ Len(sockets) <= sockCall.fanoutSlots
           /\ \A r \in 1..Len(sockets) :
                  \E i \in 1..Min(sockCall.fanoutSlots, Len(Leaders)) :
                      MapGet(LeaderTPUMap, Leaders[i]) = sockets[r]

\* The same statement for k >= 1.
AtMostKPositionsScannedFromOne ==
    (sockCall # None /\ sockCall.op = "GetLeaderSockets" /\ sockCall.fanoutSlots >= 1)
        => /\ Len(sockets) <= sockCall.fanoutSlots
           /\ \A r \in 1..Len(sockets) :
                  \E i \in 1..Min(sockCall.fanoutSlots, Len(Leaders)) :
                      MapGet(LeaderTPUMap, Leaders[i]) = sockets[r]

(***************************************************************************)
(* TPUClient.SendRawTransaction, one step per dial and per write.          *)
(***************************************************************************)
DialRetriesOneMore == 2 + 2

DialRetries == 3

\* lastError = err.Error()
ErrorKeepingFirst(old, text) == IF old = "" THEN text ELSE old

ErrorRecorded(old, text) == text

\* The return statement: errors.New(lastError) when successes == 0.
OutcomeFailingOnAnyError(succ, lastErr) ==
    IF lastErr # "" THEN [ok |-> FALSE, text |-> lastErr] ELSE [ok |-> TRUE, text |-> ""]

SendOutcome(succ, lastErr) ==
    IF succ = 0 THEN [ok |-> FALSE, text |-> lastErr] ELSE [ok |-> TRUE, text |-> ""]

\* The range loop moves to the next address, or the loop ends.
NextLeader ==
    /\ leaderIdx' = leaderIdx + 1
    /\ connectionTries' = 0
    /\ writeIdx' = 0
    /\ sendPc' = IF leaderIdx + 1 > Len(leaderTPUSockets) THEN "return" ELSE "dial"

\* The loop leaves a destination after d dials and w writes.
LeaveAddr(d, connected, w) ==
    /\ lastAddr' = [dials |-> d, connected |-> connected, writes |-> w]
    /\ dials' = 0
    /\ writes' = 0

NoteFailure(text) ==
    /\ lastFailure' = text
    /\ sawOther' = (sawOther \/ (lastFailure # "" /\ lastFailure # text))

SendRawTransaction(n) ==
    /\ sendPc = "idle"
    /\ amount' = n
    /\ successes' = 0
    /\ lastError' = ""
    /\ leaderTPUSockets' = LeaderSocketsOf(Leaders, LeaderTPUMap, FanoutSlots)
    /\ leaderIdx' = 1
    /\ connectionTries' = 0
    /\ writeIdx' = 0
    /\ sendPc' = IF LeaderSocketsOf(Leaders, LeaderTPUMap, FanoutSlots) = <<>>
                 THEN "return" ELSE "dial"
    /\ dials' = 0
    /\ writes' = 0
    /\ lastAddr' = None
    /\ UNCHANGED <<FanoutSlots, sendResult, wroteOk, lastFailure, sawOther, skipped>>

DialFails(text) ==
    /\ sendPc = "dial"
    /\ lastError' = ErrorRecorded(lastError, text)
    /\ NoteFailure(text)
    /\ IF connectionTries < DialRetries
       THEN /\ connectionTries' = connectionTries + 1
            /\ dials' = dials + 1
            /\ UNCHANGED <<sendPc, leaderIdx, writeIdx, skipped, writes, lastAddr>>
       ELSE /\ NextLeader
            /\ skipped' = skipped + 1
            /\ LeaveAddr(dials + 1, FALSE, writes)
    /\ UNCHANGED <<FanoutSlots, amount, leaderTPUSockets, successes, sendResult, wroteOk>>

DialSucceeds ==
    /\ sendPc = "dial"
    /\ IF 0 < amount
       THEN /\ sendPc' = "write"
            /\ writeIdx' = 0
            /\ dials' = dials + 1
            /\ UNCHANGED <<leaderIdx, connectionTries, writes, lastAddr>>
       ELSE NextLeader /\ LeaveAddr(dials + 1, TRUE, writes)
    /\ UNCHANGED <<FanoutSlots, amount, leaderTPUSockets, successes, lastError,
                   sendResult, wroteOk, lastFailure, sawOther, skipped>>

\* After a write: i++, and connection.Close() once i reaches amount.
AfterWrite ==
    IF writeIdx + 1 < amount
    THEN /\ writeIdx' = writeIdx + 1
         /\ writes' = writes + 1
         /\ UNCHANGED <<sendPc, leaderIdx, connectionTries, dials, lastAddr>>
    ELSE NextLeader /\ LeaveAddr(dials, TRUE, writes + 1)

WriteFails(text) ==
    /\ sendPc = "write"
    /\ lastError' = ErrorRecorded(lastError, text)
    /\ NoteFailure(text)
    /\ AfterWrite
    /\ UNCHANGED <<FanoutSlots, amount, leaderTPUSockets, successes, sendResult,
                   wroteOk, skipped>>

WriteSucceeds ==
    /\ sendPc = "write"
    /\ successes' = successes + 1
    /\ wroteOk' = TRUE
    /\ AfterWrite
    /\ UNCHANGED <<FanoutSlots, amount, leaderTPUSockets, lastError, sendResult,
                   lastFailure, sawOther, skipped>>

SendReturns ==
    /\ sendPc = "return"
    /\ sendResult' = SendOutcome(successes, lastError)
    /\ sendPc' = "done"
    /\ UNCHANGED <<FanoutSlots, amount, leaderTPUSockets, leaderIdx, connectionTries,
                   writeIdx, successes, lastError, wroteOk, lastFailure, sawOther,
                   skipped, dials, writes, lastAddr>>

(***************************************************************************)
(* One SendRawTransaction call against any small cache, with every pattern *)
(* of dial and write failures.                                             *)
(***************************************************************************)
MaxAmount == 2

ErrTexts == {"e1", "e2"}
SendTables ==
    {[l \in {"A", "B"} |-> IF l = "A" THEN "addr1" ELSE "addr2"],
     [l \in LeaderIds |-> IF l = "C" THEN "addr2" ELSE "addr1"]}
FanoutChoices == {1, 2, 12}

InitSend ==
    /\ Leaders \in SeqsUpTo(LeaderIds, MaxLeaders)
    /\ LeaderTPUMap \in SendTables
    /\ FanoutSlots \in FanoutChoices
    /\ SendIdle
    /\ NoService
    /\ sockCall = None
    /\ sockets = <<>>
    /\ RecentSlots = <<>>
    /\ recorded = <<>>
    /\ estimate = None
    /\ convOverflow = Two63

NextSend ==
    \/ \E n \in (-1)..MaxAmount : SendRawTransaction(n) /\ UNCHANGED <<estVars, sockVars, svcVars>>
    \/ \E text \in ErrTexts : DialFails(text) /\ UNCHANGED <<estVars, sockVars, svcVars>>
    \/ DialSucceeds /\ UNCHANGED <<estVars, sockVars, svcVars>>
    \/ \E text \in ErrTexts : WriteFails(text) /\ UNCHANGED <<estVars, sockVars, svcVars>>
    \/ WriteSucceeds /\ UNCHANGED <<estVars, sockVars, svcVars>>
    \/ SendReturns /\ UNCHANGED <<estVars, sockVars, svcVars>>

SpecSend == InitSend /\ [][NextSend]_vars

\* C1: SendRawTransaction returns success if and only if at least one write
\* to some destination succeeded during the call.
C1_SuccessIffSomeWriteSucceeded ==
    sendPc = "done" => (sendResult.ok <=> wroteOk)

\* One destination took one write; every other one failed all its dials.
C1_Witness ==
    /\ sendPc = "done"
    /\ sendResult.ok
    /\ successes = 1
    /\ Len(leaderTPUSockets) >= 2
    /\ skipped = Len(leaderTPUSockets) - 1

\* C2: when the call fails, the error text is that of the most recent dial
\* or write failure of the call; and when there was a destination and a
\* write to make, so that every destination failed, there is such a failure
\* and the text is not empty.
C2_ErrorIsMostRecentFailure ==
    (sendPc = "done" /\ ~sendResult.ok)
        => /\ lastFailure # "" => sendResult.text = lastFailure
           /\ (leaderTPUSockets # <<>> /\ amount >= 1)
                  => (lastFailure # "" /\ sendResult.text # "")

\* A failed call over two destinations whose failures had different texts.
C2_Witness ==
    /\ sendPc = "done"
    /\ ~sendResult.ok
    /\ Len(leaderTPUSockets) >= 2
    /\ amount >= 1
    /\ sawOther
    /\ sendResult.text = lastFailure

(***************************************************************************)
(* The query and streaming collaborators (package rpc and package ws).     *)
(***************************************************************************)
LeaderRotation == <<"A", "B", "C">>

\* The cluster's leader schedule: each leader keeps four consecutive slots.
LeaderOf(slot) == LeaderRotation[((slot[5] \div 4) % Len(LeaderRotation)) + 1]

\* getSlotLeaders(startSlot, limit): the leaders of limit consecutive slots.
RpcGetSlotLeaders(startSlot, limit) ==
    [i \in 1..limit |-> LeaderOf(U64Add(startSlot, Big(i - 1)))]

\* What getClusterNodes may answer: a node's TPU is nil when it has none.
NodeLists ==
    {<<[Pubkey |-> "A", TPU |-> "addr1"], [Pubkey |-> "B", TPU |-> "addr2"],
       [Pubkey |-> "C", TPU |-> Nil]>>,
     <<[Pubkey |-> "A", TPU |-> "addr1"], [Pubkey |-> "B", TPU |-> "addr1"],
       [Pubkey |-> "C", TPU |-> "addr2"]>>}

\* The message types of a slotsUpdates subscription.
SlotsUpdatesCompleted == "completed"
SlotsUpdatesFirstShredReceived == "firstShredReceived"
SlotsUpdatesTypes == {"firstShredReceived", "completed", "frozen", "root"}

(***************************************************************************)
(* LeaderTPUCache: loading and the window's bounds.                        *)
(***************************************************************************)
DEFAULT_FANOUT_SLOTS == 12
MAX_FANOUT_SLOTS == 100

Max(a, b) == IF a >= b THEN a ELSE b

\* FetchSlotLeaders: uint64(math.Min(float64(2*MAX_FANOUT_SLOTS),
\* float64(slotsInEpoch))) leaders starting at startSlot.
FetchLimitOneFanout(slotsInEpoch) == Min(MAX_FANOUT_SLOTS, slotsInEpoch)

FetchLimit(slotsInEpoch) == Min(2 * MAX_FANOUT_SLOTS, slotsInEpoch)

FetchSlotLeadersOf(startSlot, slotsInEpoch) ==
    RpcGetSlotLeaders(startSlot, FetchLimit(slotsInEpoch))

MapPut(m, k, v) == [x \in (DOMAIN m) \cup {k} |-> IF x = k THEN v ELSE m[x]]

\* FetchClusterTPUSockets: the nodes whose TPU is not nil.
RECURSIVE TpuSocketsFrom(_, _)
TpuSocketsFrom(clusterNodes, clusterTPUSockets) ==
    IF clusterNodes = <<>> THEN clusterTPUSockets
    ELSE LET contactInfo == Head(clusterNodes)
         IN  TpuSocketsFrom(Tail(clusterNodes),
                            IF contactInfo.TPU # Nil
                            THEN MapPut(clusterTPUSockets, contactInfo.Pubkey,
                                        contactInfo.TPU)
                            ELSE clusterTPUSockets)

FetchClusterTPUSocketsOf(clusterNodes) == TpuSocketsFrom(clusterNodes, <<>>)

\* LastSlot: FirstSlot + uint64(len(Leaders)) - 1, in uint64.
LastSlotOf(firstSlot, leaders) ==
    U64Sub(U64Add(firstSlot, Big(Len(leaders))), Big(1))

\* GetSlotLeader: Leaders[slot - FirstSlot] for a slot not before FirstSlot
\* (an index past the end panics), the zero PublicKey for an earlier slot.
GetSlotLeaderOf(firstSlot, leaders, slot) ==
    IF BigLe(firstSlot, slot)
    THEN LET d == U64Sub(slot, firstSlot)
         IN  IF d[2] = 0 /\ d[3] = 0 /\ d[4] = 0 /\ d[5] < Len(leaders)
             THEN leaders[d[5] + 1]
             ELSE "panic"
    ELSE ""

\* Run's test: currentSlot >= LastSlot() - fanout, in uint64.
ReanchorDue(cur, firstSlot, leaders, fanout) ==
    BigLe(U64Sub(LastSlotOf(firstSlot, leaders), Big(fanout)), cur)

\* TPUClient.Load: uint64(math.Max(math.Min(float64(config.FanoutSlots),
\* float64(MAX_FANOUT_SLOTS)), 1)).
ClampFanout(configFanout) == Max(Min(configFanout, MAX_FANOUT_SLOTS), 1)

(***************************************************************************)
(* New: TPUClient.Load, LeaderTPUService.Load and LeaderTPUCache.Load.     *)
(* failAt names the query that fails, ws the streaming endpoint's fate.    *)
(***************************************************************************)
LoadQueries == <<"getSlot", "getEpochInfo", "getSlotLeaders", "getClusterNodes">>
WsOutcomes == {"", "connectFails", "subscribeFails", "ok"}

\* LeaderTPUCache.Load: FirstSlot is not assigned and keeps its zero value.
CacheLoaded(startSlot, clusterNodes) ==
    /\ SlotsInEpoch' = epochSlots
    /\ Leaders' = FetchSlotLeadersOf(startSlot, epochSlots)
    /\ leadersStart' = startSlot
    /\ LeaderTPUMap' = FetchClusterTPUSocketsOf(clusterNodes)
    /\ UNCHANGED FirstSlot

\* go leaderTPUService.Run(fanout) is reached only when no query returned
\* an error before it.
RunAfterLoadAlways(failAt) == "top"

RunAfterLoad(failAt) == IF failAt = "none" THEN "top" ELSE "off"

New(configFanout, ws, failAt, clusterNodes) ==
    /\ clientState = "new"
    /\ config' = configFanout
    /\ FanoutSlots' = ClampFanout(configFanout)
    /\ IF failAt = "getSlot"
       THEN UNCHANGED <<RecentSlots, recorded>>
       ELSE /\ RecentSlots' = Append(RecentSlots, ToFloat64(Big(clusterSlot)))
            /\ recorded' = Append(recorded, Big(clusterSlot))
    /\ IF failAt = "none"
       THEN /\ CacheLoaded(Big(clusterSlot), clusterNodes)
            /\ clientState' = "ready"
            /\ loadError' = None
            /\ listener' = IF ws = "ok" THEN "running" ELSE "none"
            /\ Connection' = IF ws = "ok" THEN "rpc" ELSE Nil
            /\ sleepMs' = 1000
       ELSE /\ clientState' = "failed"
            /\ loadError' = failAt
            /\ Connection' = "rpc"
            /\ UNCHANGED <<SlotsInEpoch, Leaders, leadersStart, LeaderTPUMap,
                           FirstSlot, listener, sleepMs>>
    /\ runPc' = RunAfterLoad(failAt)
    /\ UNCHANGED <<estimate, convOverflow, sockCall, sockets, clusterSlot,
                   advances, epochSlots, events, refreshDue, currentSlot,
                   slotLeaders, oldFirstSlot, readerSaw, runLog>>

(***************************************************************************)
(* LeaderTPUService.Run, one step per query, per sleep and per write to    *)
(* the cache.  time.Sleep lasts at least sleepMs and may last any longer,  *)
(* so the topology refresh can fall due at any sleep.                      *)
(***************************************************************************)
\* A query of Run and how it ended, or a sleep of Run and how long it was
\* asked to last.
RunQuery(ok) == [kind |-> "query", ok |-> ok, ms |-> 0]
RunSlept(ms) == [kind |-> "sleep", ok |-> TRUE, ms |-> ms]
Logged(log, e) == IF Len(log) < 2 THEN Append(log, e) ELSE <<log[2], e>>

RunFrame ==
    UNCHANGED <<recorded, convOverflow, sockCall, sockets, FanoutSlots,
                clusterSlot, advances, epochSlots, clientState, config, loadError,
                Connection, SlotsInEpoch, listener, events, readerSaw>>

RunRefreshNotDue ==
    /\ runPc = "top"
    /\ UNCHANGED runLog
    /\ ~refreshDue
    /\ runPc' = "sleep"
    /\ RunFrame
    /\ UNCHANGED <<RecentSlots, estimate, Leaders, LeaderTPUMap, FirstSlot, sleepMs,
                   refreshDue, currentSlot, slotLeaders, oldFirstSlot, leadersStart>>

RunRefreshSucceeds(clusterNodes) ==
    /\ runPc = "top"
    /\ runLog' = Logged(runLog, RunQuery(TRUE))
    /\ refreshDue
    /\ LeaderTPUMap' = FetchClusterTPUSocketsOf(clusterNodes)
    /\ refreshDue' = FALSE
    /\ runPc' = "sleep"
    /\ RunFrame
    /\ UNCHANGED <<RecentSlots, estimate, Leaders, FirstSlot, sleepMs, currentSlot,
                   slotLeaders, oldFirstSlot, leadersStart>>

\* continue: back to the top of the loop, without sleeping.
RunRefreshFails ==
    /\ runPc = "top"
    /\ runLog' = Logged(runLog, RunQuery(FALSE))
    /\ refreshDue
    /\ sleepMs' = 100
    /\ runPc' = "top"
    /\ RunFrame
    /\ UNCHANGED <<RecentSlots, estimate, Leaders, LeaderTPUMap, FirstSlot,
                   refreshDue, currentSlot, slotLeaders, oldFirstSlot, leadersStart>>

RunSleep(longer) ==
    /\ runPc = "sleep"
    /\ runLog' = Logged(runLog, RunSlept(sleepMs))
    /\ refreshDue' = (refreshDue \/ longer)
    /\ runPc' = "estimate"
    /\ RunFrame
    /\ UNCHANGED <<RecentSlots, estimate, Leaders, LeaderTPUMap, FirstSlot, sleepMs,
                   currentSlot, slotLeaders, oldFirstSlot, leadersStart>>

RunEstimate ==
    /\ runPc = "estimate"
    /\ UNCHANGED runLog
    /\ currentSlot' = EstimateOf(RecentSlots, convOverflow)
    /\ estimate' = currentSlot'
    /\ RecentSlots' = WindowAfterEstimate(RecentSlots)
    /\ IF ReanchorDue(currentSlot', FirstSlot, Leaders, FanoutSlots)
       THEN runPc' = "fetch" /\ UNCHANGED sleepMs
       ELSE runPc' = "top" /\ sleepMs' = 1000
    /\ RunFrame
    /\ UNCHANGED <<Leaders, LeaderTPUMap, FirstSlot, refreshDue, slotLeaders,
                   oldFirstSlot, leadersStart>>

RunFetchSucceeds ==
    /\ runPc = "fetch"
    /\ runLog' = Logged(runLog, RunQuery(TRUE))
    /\ slotLeaders' = FetchSlotLeadersOf(currentSlot, SlotsInEpoch)
    /\ runPc' = "writeFirstSlot"
    /\ RunFrame
    /\ UNCHANGED <<RecentSlots, estimate, Leaders, LeaderTPUMap, FirstSlot, sleepMs,
                   refreshDue, currentSlot, oldFirstSlot, leadersStart>>

RunFetchFailsDroppingWindow ==
    /\ runPc = "fetch"
    /\ runLog' = Logged(runLog, RunQuery(FALSE))
    /\ sleepMs' = 100
    /\ runPc' = "top"
    /\ Leaders' = <<>>
    /\ RunFrame
    /\ UNCHANGED <<RecentSlots, estimate, LeaderTPUMap, FirstSlot,
                   refreshDue, currentSlot, slotLeaders, oldFirstSlot, leadersStart>>

RunFetchFails ==
    /\ runPc = "fetch"
    /\ runLog' = Logged(runLog, RunQuery(FALSE))
    /\ sleepMs' = 100
    /\ runPc' = "top"
    /\ RunFrame
    /\ UNCHANGED <<RecentSlots, estimate, Leaders, LeaderTPUMap, FirstSlot,
                   refreshDue, currentSlot, slotLeaders, oldFirstSlot, leadersStart>>

RunWriteFirstSlot ==
    /\ runPc = "writeFirstSlot"
    /\ UNCHANGED runLog
    /\ oldFirstSlot' = FirstSlot
    /\ FirstSlot' = currentSlot
    /\ runPc' = "writeLeaders"
    /\ RunFrame
    /\ UNCHANGED <<RecentSlots, estimate, Leaders, LeaderTPUMap, sleepMs, refreshDue,
                   currentSlot, slotLeaders, leadersStart>>

RunWriteLeaders ==
    /\ runPc = "writeLeaders"
    /\ UNCHANGED runLog
    /\ Leaders' = slotLeaders
    /\ leadersStart' = currentSlot
    /\ sleepMs' = 1000
    /\ runPc' = "top"
    /\ RunFrame
    /\ UNCHANGED <<RecentSlots, estimate, LeaderTPUMap, FirstSlot, refreshDue,
                   currentSlot, slotLeaders, oldFirstSlot>>

(***************************************************************************)
(* The listener goroutine, the cluster and the readers of the cache.       *)
(***************************************************************************)
MaxEvents == 1
MaxAdvance == 1

\* The slot the loop body records for what Recv returned, or None: the slot
\* after a completed one, the slot of a first shred, nothing for the other
\* message types and nothing when Recv returned an error.
ListenerSampleNoSkip(message, err) ==
    IF err THEN None
    ELSE IF message.Type = SlotsUpdatesCompleted THEN message.Slot
    ELSE IF message.Type = SlotsUpdatesFirstShredReceived THEN message.Slot
    ELSE None

ListenerSample(message, err) ==
    IF err THEN None
    ELSE IF message.Type = SlotsUpdatesCompleted THEN U64Add(message.Slot, Big(1))
    ELSE IF message.Type = SlotsUpdatesFirstShredReceived THEN message.Slot
    ELSE None

\* One Recv of the subscription and what the loop body does with it.
ListenerRecv(message, err) ==
    /\ listener = "running"
    /\ events < MaxEvents
    /\ events' = events + 1
    /\ IF ListenerSample(message, err) = None
       THEN UNCHANGED estVars
       ELSE RecordSlot(ListenerSample(message, err))
    /\ UNCHANGED <<sockVars, sendVars, clusterSlot, advances, epochSlots, clientState,
                   config, runLog,
                   loadError, Connection, FirstSlot, SlotsInEpoch, listener, runPc,
                   sleepMs, refreshDue, currentSlot, slotLeaders, oldFirstSlot,
                   leadersStart, readerSaw>>

ClusterAdvances ==
    /\ advances < MaxAdvance
    /\ advances' = advances + 1
    /\ clusterSlot' = clusterSlot + 1
    /\ UNCHANGED <<estVars, sockVars, sendVars, epochSlots, clientState, config,
                   runLog, loadError,
                   Connection, FirstSlot, SlotsInEpoch, listener, events, runPc,
                   sleepMs, refreshDue, currentSlot, slotLeaders, oldFirstSlot,
                   leadersStart, readerSaw>>

\* Run has written the new FirstSlot and not yet the new Leaders, and the
\* two windows differ in both.
HalfReplaced ==
    runPc = "writeLeaders" /\ FirstSlot # oldFirstSlot /\ Leaders # slotLeaders

\* A reader (LastSlot, GetSlotLeader, GetLeaderSockets from a sender's
\* goroutine) reads FirstSlot and Leaders; kept of what it read is whether
\* the two belong to different windows.
ReaderLooks ==
    /\ clientState = "ready"
    /\ readerSaw' = [half |-> HalfReplaced]
    /\ UNCHANGED <<estVars, sockVars, sendVars, clusterSlot, advances, epochSlots,
                   clientState, config, runLog, loadError, Connection, FirstSlot,
                   SlotsInEpoch,
                   listener, events, runPc, sleepMs, refreshDue, currentSlot,
                   slotLeaders, oldFirstSlot, leadersStart>>

(***************************************************************************)
(* The client: construction, then the Run goroutine, the listener, the     *)
(* cluster and readers in any interleaving.  No sample here comes near     *)
(* 2^64, so what an out-of-range conversion yields plays no part.          *)
(***************************************************************************)
InitialSlots == {7, 1000}
EpochChoices == {8, 432000}
ConfigChoices == {0, 12, 150}

Init ==
    /\ clusterSlot \in InitialSlots
    /\ epochSlots \in EpochChoices
    /\ advances = 0
    /\ clientState = "new"
    /\ config = -1
    /\ runLog = <<>>
    /\ loadError = None
    /\ Connection = Nil
    /\ FirstSlot = Big(0)
    /\ SlotsInEpoch = 0
    /\ listener = "none"
    /\ events = 0
    /\ runPc = "off"
    /\ sleepMs = 0
    /\ refreshDue = FALSE
    /\ currentSlot = Big(0)
    /\ slotLeaders = <<>>
    /\ oldFirstSlot = Big(0)
    /\ leadersStart = None
    /\ readerSaw = None
    /\ RecentSlots = <<>>
    /\ recorded = <<>>
    /\ estimate = None
    /\ convOverflow = Two63
    /\ Leaders = <<>>
    /\ LeaderTPUMap = <<>>
    /\ sockCall = None
    /\ sockets = <<>>
    /\ FanoutSlots = 0
    /\ SendIdle

Next ==
    \/ \E c \in ConfigChoices, ws \in WsOutcomes, n \in NodeLists,
          f \in {"none"} \cup {LoadQueries[i] : i \in 1..Len(LoadQueries)} :
           New(c, ws, f, n)
             /\ UNCHANGED <<amount, sendPc, leaderTPUSockets, leaderIdx,
                            connectionTries, writeIdx, successes, lastError,
                            sendResult, wroteOk, lastFailure, sawOther, skipped,
                            dials, writes, lastAddr>>
    \/ RunRefreshNotDue /\ UNCHANGED sendVars
    \/ \E n \in NodeLists : RunRefreshSucceeds(n) /\ UNCHANGED sendVars
    \/ RunRefreshFails /\ UNCHANGED sendVars
    \/ \E longer \in BOOLEAN : RunSleep(longer) /\ UNCHANGED sendVars
    \/ RunEstimate /\ UNCHANGED sendVars
    \/ RunFetchSucceeds /\ UNCHANGED sendVars
    \/ RunFetchFails /\ UNCHANGED sendVars
    \/ RunWriteFirstSlot /\ UNCHANGED sendVars
    \/ RunWriteLeaders /\ UNCHANGED sendVars
    \/ \E t \in SlotsUpdatesTypes, err \in BOOLEAN :
           ListenerRecv([Type |-> t, Slot |-> Big(clusterSlot)], err)
    \/ ClusterAdvances
    \/ ReaderLooks

Spec == Init /\ [][Next]_vars

(***************************************************************************)
(* Claims about the leader window.                                         *)
(***************************************************************************)
\* C8: once the client is loaded, and after every re-anchoring, the leader
\* at position i of Leaders is the leader of slot FirstSlot + i, and
\* FirstSlot is the start slot of the request whose result Leaders holds.
C8_WindowAnchoredAtFirstSlot ==
    (clientState = "ready" /\ runPc # "writeLeaders")
        => /\ FirstSlot = leadersStart
           /\ \A i \in 1..Len(Leaders) :
                  Leaders[i] = LeaderOf(U64Add(FirstSlot, Big(i - 1)))

\* The same statement for the states that follow a re-anchoring by Run.
WindowAnchoredAfterReanchor ==
    (clientState = "ready" /\ runPc # "writeLeaders" /\ FirstSlot # Big(0))
        => /\ FirstSlot = leadersStart
           /\ \A i \in 1..Len(Leaders) :
                  Leaders[i] = LeaderOf(U64Add(FirstSlot, Big(i - 1)))

\* C9: no reader observes a half-replaced window, the new FirstSlot with
\* the old leader sequence or the reverse.
C9_NoHalfReplacedWindowSeen ==
    readerSaw # None => ~readerSaw.half

\* C10: once the client is constructed, LastSlot() >= EstimatedCurrentSlot()
\* + fanoutSlots in every state.
C10_WindowStaysFanoutAhead ==
    clientState = "ready"
        => BigLe(BigAdd(EstimateOf(RecentSlots, convOverflow), Big(FanoutSlots)),
                 LastSlotOf(FirstSlot, Leaders))

\* The statement of C10 with the window's end taken from the slot the
\* leaders were fetched for rather than from FirstSlot.
FetchedWindowStaysFanoutAhead ==
    clientState = "ready"
        => BigLe(BigAdd(EstimateOf(RecentSlots, convOverflow), Big(FanoutSlots)),
                 LastSlotOf(leadersStart, Leaders))

(***************************************************************************)
(* The same client under fair scheduling: the Run goroutine keeps being    *)
(* scheduled and its sleeps end, a leader fetch that is tried again and    *)
(* again succeeds in the end, and the cluster keeps producing slots.       *)
(***************************************************************************)
RunStep ==
    /\ \/ RunRefreshNotDue
       \/ \E n \in NodeLists : RunRefreshSucceeds(n)
       \/ RunRefreshFails
       \/ \E longer \in BOOLEAN : RunSleep(longer)
       \/ RunEstimate
       \/ RunFetchSucceeds
       \/ RunFetchFails
       \/ RunWriteFirstSlot
       \/ RunWriteLeaders
    /\ UNCHANGED sendVars

SpecLive ==
    /\ Init
    /\ [][Next]_vars
    /\ WF_vars(RunStep)
    /\ SF_vars(RunFetchSucceeds /\ UNCHANGED sendVars)
    /\ WF_vars(ClusterAdvances)

\* C11: with no streaming endpoint, or when connecting or subscribing to it
\* failed, explicit current-slot queries keep feeding the estimator: once
\* the cluster has advanced, the estimate eventually exceeds the slot the
\* client was loaded at and the window is eventually anchored past it.
C11_FallbackPollingAdvancesEstimate ==
    [](  (clientState = "ready" /\ listener = "none" /\ advances >= 1)
      => <>(/\ recorded # <<>>
            /\ BigLt(Head(recorded), EstimateOf(RecentSlots, convOverflow))
            /\ BigLt(Head(recorded), FirstSlot)))

\* Without a listener nothing records a sample after Load's.
NoListenerNoNewSample ==
    (clientState = "ready" /\ listener = "none") => Len(recorded) = 1

\* C12: when a query of the initialization (getSlot, getEpochInfo,
\* getSlotLeaders, getClusterNodes) fails, construction fails with that
\* query's error, nothing is tried again, and neither the Run goroutine nor
\* the listener goroutine is ever started.
C12_FailedLoadStartsNothing ==
    clientState = "failed"
        => /\ \E i \in 1..Len(LoadQueries) : loadError = LoadQueries[i]
           /\ (loadError = "getSlot") <=> (RecentSlots = <<>>)
           /\ runPc = "off"
           /\ listener = "none"
           /\ Leaders = <<>> /\ LeaderTPUMap = <<>> /\ leadersStart = None
           /\ estimate = None /\ events = 0

\* Construction failed at getClusterNodes, after three queries succeeded.
C12_Witness ==
    /\ clientState = "failed"
    /\ loadError = "getClusterNodes"
    /\ RecentSlots # <<>>
    /\ advances = 1
    /\ runPc = "off"

\* C13: every getSlotLeaders request of Load and of Run asks for exactly
\* min(200, slotsInEpoch) slots, so the leader window stored after a
\* successful fetch, and the one Run has fetched and is about to store,
\* has length min(2 * 100, slotsInEpoch).
C13_WindowLengthIsFetchLimit ==
    /\ clientState = "ready" => Len(Leaders) = Min(2 * 100, epochSlots)
    /\ runPc \in {"writeFirstSlot", "writeLeaders"}
           => Len(slotLeaders) = Min(2 * 100, epochSlots)

\* Run has re-anchored a window of 200 leaders in a long epoch.
C13_Witness ==
    /\ clientState = "ready"
    /\ runPc = "top"
    /\ FirstSlot # Big(0)
    /\ epochSlots > 200
    /\ Len(Leaders) = 200
    /\ Leaders = slotLeaders

\* Load has stored a window as long as a short epoch.
WindowOfShortEpochReached ==
    clientState = "ready" /\ epochSlots < 200 /\ Len(Leaders) = epochSlots

\* C14: the fan-out the client uses after construction is the configured
\* value clamped to [1, MAX_FANOUT_SLOTS], and DEFAULT_FANOUT_SLOTS when the
\* configuration leaves it at its zero value.
C14_FanoutClampedWithDefault ==
    clientState # "new"
        => FanoutSlots = IF config = 0 THEN DEFAULT_FANOUT_SLOTS
                         ELSE IF config > 100 THEN 100
                         ELSE config

\* The clamp alone: an unset fan-out becomes 1.
FanoutIsClampedConfig ==
    clientState # "new"
        => FanoutSlots = IF config < 1 THEN 1 ELSE IF config > 100 THEN 100 ELSE config

\* C17: Run never issues two consecutive queries without a sleep between
\* them, and the sleep that follows a failed fetch (of the topology or of
\* the leaders) is the shortened one of 100 ms.
C17_SleepBetweenQueries ==
    (Len(runLog) = 2 /\ runLog[1].kind = "query")
        => /\ runLog[2].kind = "sleep"
           /\ ~runLog[1].ok => runLog[2].ms = 100

\* Every sleep of Run is asked to last 1000 ms or 100 ms, and one that
\* directly follows a failed query is of 100 ms.
SleepAfterFailureIsShort ==
    \A i \in 1..Len(runLog) :
        runLog[i].kind = "sleep"
            => /\ runLog[i].ms \in {100, 1000}
               /\ (i = 2 /\ runLog[1].kind = "query" /\ ~runLog[1].ok)
                      => runLog[i].ms = 100

\* C16: a failed topology fetch or a failed leader fetch of Run leaves the
\* shared cache as it was (LeaderTPUMap, FirstSlot and Leaders keep their
\* values), Run goes on with its loop, and nothing reaches the callers:
\* the client's state, its load error and every sender's state are untouched.
C16_FailedFetchKeepsCache ==
    [][(runPc \in {"top", "fetch"} /\ runPc' = "top" /\ sleepMs' = 100)
          => /\ LeaderTPUMap' = LeaderTPUMap
             /\ FirstSlot' = FirstSlot
             /\ Leaders' = Leaders
             /\ leadersStart' = leadersStart
             /\ clientState' = clientState
             /\ loadError' = loadError
             /\ UNCHANGED sendVars]_vars

\* A leader fetch has just failed after Run had re-anchored the window
\* once: the window of the earlier re-anchoring is still in place.
C16_Witness ==
    /\ runPc = "top"
    /\ sleepMs = 100
    /\ Len(runLog) = 2
    /\ runLog[2] = RunQuery(FALSE)
    /\ runLog[1].kind = "sleep"
    /\ FirstSlot # Big(0)
    /\ Leaders # <<>>
    /\ FirstSlot = leadersStart
    /\ BigLt(FirstSlot, currentSlot)

\* C15: whenever the estimated current slot lies inside the cached window
\* (FirstSlot <= e <= LastSlot) and the leader of that slot has a known
\* address, the list SendRawTransaction resolves with
\* GetLeaderSockets(FanoutSlots) contains that address.  It is stated here
\* for the states in which the window is anchored at the slot its leaders
\* were fetched for, in an epoch shorter than the longest window.
C15_SendTargetsCurrentLeader ==
    (/\ clientState = "ready"
     /\ SlotsInEpoch < 2 * MAX_FANOUT_SLOTS
     /\ runPc # "writeLeaders"
     /\ FirstSlot = leadersStart
     /\ BigLe(FirstSlot, EstimateOf(RecentSlots, convOverflow))
     /\ BigLe(EstimateOf(RecentSlots, convOverflow), LastSlotOf(FirstSlot, Leaders))
     /\ GetSlotLeaderOf(FirstSlot, Leaders, EstimateOf(RecentSlots, convOverflow))
            \in DOMAIN LeaderTPUMap)
        => \E i \in 1..Len(LeaderSocketsOf(Leaders, LeaderTPUMap, FanoutSlots)) :
               LeaderSocketsOf(Leaders, LeaderTPUMap, FanoutSlots)[i]
                   = LeaderTPUMap[GetSlotLeaderOf(FirstSlot, Leaders,
                                                  EstimateOf(RecentSlots, convOverflow))]

\* C18: Run's re-anchor decision equals the inequality over the integers
\* estimatedCurrentSlot + fanoutSlots >= FirstSlot + length(Leaders) - 1,
\* whatever the values: the wraparound of LastSlot() - fanout in uint64
\* never turns a due re-anchoring into a skipped one.
C18_ReanchorDecisionIsExact ==
    [][(runPc = "estimate" /\ runPc' # "estimate")
          => ((runPc' = "fetch")
                <=> BigLe(BigAdd(FirstSlot, Big(Len(Leaders))),
                          BigAdd(BigAdd(currentSlot', Big(FanoutSlots)), Big(1))))]_vars

\* The decision is the integers' one whenever LastSlot() is at least the
\* fan-out, so that the subtraction does not wrap.
ReanchorDecisionExactWithoutWrap ==
    [][(/\ runPc = "estimate" /\ runPc' # "estimate"
        /\ Leaders # <<>>
        /\ BigLe(Big(FanoutSlots), LastSlotOf(FirstSlot, Leaders)))
          => ((runPc' = "fetch")
                <=> BigLe(BigAdd(FirstSlot, Big(Len(Leaders))),
                          BigAdd(BigAdd(currentSlot', Big(FanoutSlots)), Big(1))))]_vars

IgnoredEventReached ==
    events = 1 /\ listener = "running" /\ Len(recorded) = 1

(***************************************************************************)
(* Claims about the progress of one SendRawTransaction call.               *)
(***************************************************************************)
\* The writes the call owes a destination it connected to.
WritesOwed == IF amount > 0 THEN amount ELSE 0

\* An upper bound on the steps the call still has to take.
StepsLeft ==
    IF sendPc = "done" THEN 0
    ELSE IF sendPc = "return" THEN 1
    ELSE 1 + (Len(leaderTPUSockets) - leaderIdx) * (4 + WritesOwed)
           + (IF sendPc = "dial" THEN 4 - dials ELSE 0) + (WritesOwed - writes)

SendAttemptsEveryAddress ==
    /\ dials <= 4
    /\ sendPc = "write" => (dials \in 1..4 /\ writes < WritesOwed)
    /\ sendPc \in {"dial", "write"} => leaderIdx \in 1..Len(leaderTPUSockets)
    /\ lastAddr # None
           => IF lastAddr.connected
              THEN lastAddr.dials \in 1..4 /\ lastAddr.writes = WritesOwed
              ELSE lastAddr.dials = 4 /\ lastAddr.writes = 0
    /\ sendPc \in {"return", "done"}
           => /\ leaderIdx = Len(leaderTPUSockets) + 1
              /\ leaderTPUSockets # <<>> => lastAddr # None

\* C20: SendRawTransaction terminates having attempted every resolved
\* address: at most 4 dials per address (the first and 3 retries), an
\* address is skipped only after 4 failed dials, every address whose dial
\* succeeded takes exactly amount writes (none when amount is not
\* positive), a failure at one address is followed by the attempt at the
\* next, and every step of the call lowers the number of steps left.
C20_SendTerminatesAfterEveryAddress ==
    /\ []SendAttemptsEveryAddress
    /\ [][(sendPc \in {"dial", "write", "return"}) => StepsLeft' < StepsLeft]_vars

\* The first address was skipped after 4 failed dials, the second one
\* connected at its third dial and took both writes, the second of which
\* failed.
C20_Witness ==
    /\ sendPc = "done"
    /\ amount = 2
    /\ Len(leaderTPUSockets) = 2
    /\ skipped = 1
    /\ lastAddr = [dials |-> 3, connected |-> TRUE, writes |-> 2]
    /\ successes = 1
    /\ lastError # ""

====
